---------------------------- MODULE Spec2Model ----------------------------
(***************************************************************************)
(* Category Spending Insights (src/src/index.tsx, the revision that starts *)
(* at line 347): the ingestion pipeline (detectColumnMapping,              *)
(* parseDateString, detectSignConvention, parseTSV), the aggregation       *)
(* (pivotData, calculateStats, getTransactionsForCell, getAvailableYears)  *)
(* and the App component's state.                                          *)
(*                                                                         *)
(* Text is modelled as TLA+ strings handled character by character, so     *)
(* trim, split, toLowerCase, parseInt and parseFloat are computed the way  *)
(* the JavaScript built-ins compute them on the strings drawn here.        *)
(***************************************************************************)
EXTENDS Integers, Sequences, FiniteSets, TLC

VARIABLES
    tsvData,        \* App: useState<string>('')               (line 733)
    storage,        \* localStorage[STORAGE_KEY], Null when unset
    transactions,   \* App: useState<Transaction[]>([])        (line 734)
    selectedYear,   \* App: useState<number | null>(null)      (line 735)
    selectedCell,   \* App: useState<CellSelection | null>     (line 736)
    pc,             \* position of the function call under study
    arg,            \* the arguments of that call
    ret             \* its return value (Null before the call returns)

vars == <<tsvData, storage, transactions, selectedYear, selectedCell, pc, arg, ret>>

appVars == <<tsvData, storage, transactions, selectedYear, selectedCell>>

\* JavaScript null / undefined: a nullable value is <<>> (null) or <<v>>.
Null == <<>>

\* The App's state right after construction (the useState initial values).
AppInit ==
    /\ tsvData = ""
    /\ storage = Null
    /\ transactions = <<>>
    /\ selectedYear = Null
    /\ selectedCell = Null

-----------------------------------------------------------------------------
(* JavaScript string built-ins *)

Char(s, i) == SubSeq(s, i, i)

\* The white space String.prototype.trim strips, as far as it is drawn here.
IsSpace(c) == c \in {" ", "\t", "\n", "\r"}

IsDigit(c) == c \in {"0", "1", "2", "3", "4", "5", "6", "7", "8", "9"}

DigitVal(c) ==
    CASE c = "0" -> 0 [] c = "1" -> 1 [] c = "2" -> 2 [] c = "3" -> 3
      [] c = "4" -> 4 [] c = "5" -> 5 [] c = "6" -> 6 [] c = "7" -> 7
      [] c = "8" -> 8 [] c = "9" -> 9

\* String.prototype.trim
trim(s) ==
    LET n  == Len(s)
        lo == CHOOSE i \in 1..(n + 1) :
                  /\ \A j \in 1..(i - 1) : IsSpace(Char(s, j))
                  /\ (i = n + 1 \/ ~IsSpace(Char(s, i)))
        hi == CHOOSE i \in 0..n :
                  /\ \A j \in (i + 1)..n : IsSpace(Char(s, j))
                  /\ (i = 0 \/ ~IsSpace(Char(s, i)))
    IN  IF lo > hi THEN "" ELSE SubSeq(s, lo, hi)

\* String.prototype.split with a one-character separator: always at least
\* one piece ("".split(sep) is [""]).
RECURSIVE split(_, _)
split(s, sep) ==
    LET n    == Len(s)
        hits == {i \in 1..n : Char(s, i) = sep}
    IN  IF hits = {} THEN <<s>>
        ELSE LET k == CHOOSE i \in hits : \A j \in hits : i <= j
             IN  <<SubSeq(s, 1, k - 1)>> \o split(SubSeq(s, k + 1, n), sep)

LowerOf ==
    [c \in {"A", "B", "C", "D", "E", "F", "G", "H", "I", "J", "K", "L", "M",
            "N", "O", "P", "Q", "R", "S", "T", "U", "V", "W", "X", "Y", "Z"} |->
        CASE c = "A" -> "a" [] c = "B" -> "b" [] c = "C" -> "c" [] c = "D" -> "d"
          [] c = "E" -> "e" [] c = "F" -> "f" [] c = "G" -> "g" [] c = "H" -> "h"
          [] c = "I" -> "i" [] c = "J" -> "j" [] c = "K" -> "k" [] c = "L" -> "l"
          [] c = "M" -> "m" [] c = "N" -> "n" [] c = "O" -> "o" [] c = "P" -> "p"
          [] c = "Q" -> "q" [] c = "R" -> "r" [] c = "S" -> "s" [] c = "T" -> "t"
          [] c = "U" -> "u" [] c = "V" -> "v" [] c = "W" -> "w" [] c = "X" -> "x"
          [] c = "Y" -> "y" [] c = "Z" -> "z"]

\* String.prototype.toLowerCase
RECURSIVE toLowerCase(_)
toLowerCase(s) ==
    IF s = "" THEN ""
    ELSE LET c == Char(s, 1)
         IN  (IF c \in DOMAIN LowerOf THEN LowerOf[c] ELSE c)
                 \o toLowerCase(SubSeq(s, 2, Len(s)))

\* parseInt(s, 10) of a string of decimal digits (what the date patterns capture).
RECURSIVE parseInt(_)
parseInt(s) ==
    IF s = "" THEN 0
    ELSE 10 * parseInt(SubSeq(s, 1, Len(s) - 1)) + DigitVal(Char(s, Len(s)))

AllDigits(s) == \A i \in 1..Len(s) : IsDigit(Char(s, i))

-----------------------------------------------------------------------------
(* parseDateString, lines 462-492 *)

\* /^(\d{a,b})[-/](\d{c,d})[-/](\d{e,f})$/ : the three captured groups, or
\* Null when the string does not match.  The two separators are matched
\* independently of each other.
MatchDate(s, lens1, lens2, lens3) ==
    LET n    == Len(s)
        seps == {i \in 1..n : Char(s, i) \in {"-", "/"}}
        cuts == {c \in seps \X seps :
                    /\ c[1] < c[2]
                    /\ (c[1] - 1) \in lens1
                    /\ (c[2] - c[1] - 1) \in lens2
                    /\ (n - c[2]) \in lens3
                    /\ AllDigits(SubSeq(s, 1, c[1] - 1))
                    /\ AllDigits(SubSeq(s, c[1] + 1, c[2] - 1))
                    /\ AllDigits(SubSeq(s, c[2] + 1, n))}
    IN  IF cuts = {} THEN Null
        ELSE LET c == CHOOSE x \in cuts : TRUE
             IN  <<SubSeq(s, 1, c[1] - 1),
                   SubSeq(s, c[1] + 1, c[2] - 1),
                   SubSeq(s, c[2] + 1, n)>>

\* parseDateString with line 484 reduced to `first > 12`.
parseDateString_FirstOnly(dateStr) ==
    LET trimmed == trim(dateStr)
        iso     == MatchDate(trimmed, {4}, {1, 2}, {1, 2})
        other   == MatchDate(trimmed, {1, 2}, {1, 2}, {4})
    IN  IF iso # Null
        THEN <<[year |-> parseInt(iso[1]), month |-> parseInt(iso[2]), day |-> parseInt(iso[3])]>>
        ELSE IF other # Null
        THEN LET first  == parseInt(other[1])
                 second == parseInt(other[2])
                 year   == parseInt(other[3])
             IN  IF first > 12
                 THEN <<[year |-> year, month |-> second, day |-> first]>>
                 ELSE <<[year |-> year, month |-> first, day |-> second]>>
        ELSE Null

\* parseDateString with line 470 reading match[1], the year group.
parseDateString_WrongGroup(dateStr) ==
    LET trimmed == trim(dateStr)
        iso     == MatchDate(trimmed, {4}, {1, 2}, {1, 2})
        other   == MatchDate(trimmed, {1, 2}, {1, 2}, {4})
    IN  IF iso # Null
        THEN <<[year |-> parseInt(iso[1]), month |-> parseInt(iso[1]), day |-> parseInt(iso[3])]>>
        ELSE IF other # Null
        THEN LET first  == parseInt(other[1])
                 second == parseInt(other[2])
                 year   == parseInt(other[3])
             IN  IF first > 12 /\ second <= 12
                 THEN <<[year |-> year, month |-> second, day |-> first]>>
                 ELSE <<[year |-> year, month |-> first, day |-> second]>>
        ELSE Null

parseDateString(dateStr) ==
    LET trimmed == trim(dateStr)
        iso     == MatchDate(trimmed, {4}, {1, 2}, {1, 2})
        other   == MatchDate(trimmed, {1, 2}, {1, 2}, {4})
    IN  IF iso # Null
        THEN <<[year |-> parseInt(iso[1]), month |-> parseInt(iso[2]), day |-> parseInt(iso[3])]>>
        ELSE IF other # Null
        THEN LET first  == parseInt(other[1])
                 second == parseInt(other[2])
                 year   == parseInt(other[3])
             IN  IF first > 12 /\ second <= 12
                 THEN <<[year |-> year, month |-> second, day |-> first]>>
                 ELSE <<[year |-> year, month |-> first, day |-> second]>>
        ELSE Null


-----------------------------------------------------------------------------
(* COLUMN_SYNONYMS and detectColumnMapping, lines 396-457 *)

\* Object.entries(COLUMN_SYNONYMS) visits the fields in this order.
Fields ==
    <<"date", "merchant", "category", "account", "originalStatement",
      "notes", "amount", "tags", "owner", "fixedCategory">>

COLUMN_SYNONYMS ==
    [date |-> <<"date", "transaction date", "trans date", "posted date",
                "posting date", "trans_date", "txn date", "txn_date">>,
     merchant |-> <<"merchant", "vendor", "payee", "description",
                    "merchant name", "name", "store">>,
     category |-> <<"category", "type", "expense type", "transaction type",
                    "trans type", "spending category">>,
     account |-> <<"account", "account name", "card", "payment method",
                   "source", "bank", "credit card">>,
     originalStatement |-> <<"original statement", "statement", "memo",
                             "original description", "raw description",
                             "bank description">>,
     notes |-> <<"notes", "note", "comments", "comment", "remarks", "remark">>,
     amount |-> <<"amount", "total", "sum", "value", "price", "cost",
                  "transaction amount", "trans amount">>,
     tags |-> <<"tags", "tag", "labels", "label">>,
     owner |-> <<"owner", "user", "person", "member", "paid by", "purchaser">>,
     fixedCategory |-> <<"fixedcategory", "fixed category", "override category",
                         "corrected category", "manual category">>]

\* The headers trimmed but not lower-cased.
NormalizedHeaders_CaseSensitive(headers) ==
    [i \in 1..Len(headers) |-> trim(headers[i])]

\* headers.map(h => h.toLowerCase().trim())
NormalizedHeaders(headers) ==
    [i \in 1..Len(headers) |-> trim(toLowerCase(headers[i]))]

\* findIndex without the `!usedIndices.has(i)` test.
FindUnclaimed_IgnoreUsed(normalizedHeaders, usedIndices, synonym) ==
    LET hits == {i \in 0..(Len(normalizedHeaders) - 1) : normalizedHeaders[i + 1] = synonym}
    IN  IF hits = {} THEN -1
        ELSE CHOOSE i \in hits : \A j \in hits : i <= j

\* normalizedHeaders.findIndex((h, i) => !usedIndices.has(i) && h === synonym):
\* the zero-based index of the first unclaimed header equal to synonym, or -1.
FindUnclaimed(normalizedHeaders, usedIndices, synonym) ==
    LET hits == {i \in 0..(Len(normalizedHeaders) - 1) :
                    i \notin usedIndices /\ normalizedHeaders[i + 1] = synonym}
    IN  IF hits = {} THEN -1
        ELSE CHOOSE i \in hits : \A j \in hits : i <= j

\* `fixed${field.charAt(0).toUpperCase() + field.slice(1)}`
FixedFieldName(field) ==
    LET c == Char(field, 1)
        u == IF \E x \in DOMAIN LowerOf : LowerOf[x] = c
             THEN CHOOSE x \in DOMAIN LowerOf : LowerOf[x] = c
             ELSE c
    IN  "fixed" \o u \o SubSeq(field, 2, Len(field))

\* synonyms.map(s => `fixed${s}`).concat(synonyms.map(s => `fixed ${s}`))
FixedSynonyms(synonyms) ==
    [i \in 1..Len(synonyms) |-> "fixed" \o synonyms[i]]
        \o [i \in 1..Len(synonyms) |-> "fixed " \o synonyms[i]]

\* The state of the matching loop: the partial mapping (a function from the
\* keys set so far to header indices), the claimed indices, and the history
\* of assignments <<key, index>> in the order they were made.
EmptyMatch == [mapping |-> <<>>, usedIndices |-> {}, claims |-> <<>>]

Assign(st, key, idx) ==
    [mapping     |-> (key :> idx) @@ st.mapping,
     usedIndices |-> st.usedIndices \cup {idx},
     claims      |-> Append(st.claims, <<key, idx>>)]

\* Lines 420-430: the loop over the fixed-prefixed synonyms, from the k-th on.
RECURSIVE FixedLoop(_, _, _, _, _)
FixedLoop(st, normalizedHeaders, fixedField, fixedSynonyms, k) ==
    IF k > Len(fixedSynonyms) THEN st
    ELSE LET idx == FindUnclaimed(normalizedHeaders, st.usedIndices, fixedSynonyms[k])
         IN  IF idx # -1 /\ fixedField \notin DOMAIN st.mapping
             THEN FixedLoop(Assign(st, fixedField, idx), normalizedHeaders,
                            fixedField, fixedSynonyms, k + 1)
             ELSE FixedLoop(st, normalizedHeaders, fixedField, fixedSynonyms, k + 1)

\* The regular match by column position: the first unclaimed header that is
\* any of the field's synonyms.
RegularLoop_ByPosition(st, normalizedHeaders, field, synonyms, k) ==
    LET hits == {i \in 0..(Len(normalizedHeaders) - 1) :
                    /\ i \notin st.usedIndices
                    /\ \E j \in 1..Len(synonyms) : normalizedHeaders[i + 1] = synonyms[j]}
    IN  IF hits = {} THEN st
        ELSE Assign(st, field, CHOOSE i \in hits : \A j \in hits : i <= j)

\* Lines 434-441: the loop over the field's own synonyms, from the k-th on;
\* the first synonym found ends it.
RECURSIVE RegularLoop(_, _, _, _, _)
RegularLoop(st, normalizedHeaders, field, synonyms, k) ==
    IF k > Len(synonyms) THEN st
    ELSE LET idx == FindUnclaimed(normalizedHeaders, st.usedIndices, synonyms[k])
         IN  IF idx # -1
             THEN Assign(st, field, idx)
             ELSE RegularLoop(st, normalizedHeaders, field, synonyms, k + 1)

\* Lines 416-442: one iteration of the loop over the fields.
FieldStep(st, normalizedHeaders, field) ==
    LET synonyms == COLUMN_SYNONYMS[field]
        afterFixed ==
            IF field # "fixedCategory"
            THEN FixedLoop(st, normalizedHeaders, FixedFieldName(field),
                           FixedSynonyms(synonyms), 1)
            ELSE st
    IN  RegularLoop(afterFixed, normalizedHeaders, field, synonyms, 1)

\* Lines 416-442: the loop over the fields, from the n-th on.  An iteration
\* that assigns nothing leaves the state as it was.
RECURSIVE MatchFrom(_, _, _)
MatchFrom(st, normalizedHeaders, n) ==
    IF n > Len(Fields) THEN st
    ELSE LET next == FieldStep(st, normalizedHeaders, Fields[n])
         IN  IF next.claims = st.claims
             THEN MatchFrom(st, normalizedHeaders, n + 1)
             ELSE MatchFrom(next, normalizedHeaders, n + 1)

\* Lines 444-456: mapping.f ?? -1 for each of the ten fields.
ReturnMapping(mapping) ==
    [f \in {Fields[i] : i \in 1..Len(Fields)} |->
        IF f \in DOMAIN mapping THEN mapping[f] ELSE -1]

detectColumnMapping(headers) ==
    ReturnMapping(MatchFrom(EmptyMatch, NormalizedHeaders(headers), 1).mapping)

-----------------------------------------------------------------------------
(* detectSignConvention and parseTSV, lines 496-501 and 614-666 *)

\* An amount is an integer.  parseFloat skips leading white space and reads
\* the longest numeric prefix: an optional sign and decimal digits here (the
\* amounts drawn have no fraction or exponent part).  <<n>> for a number,
\* Null for NaN.
parseFloat(str) ==
    LET t      == trim(str) \o "$"   \* "$" : a sentinel that is no digit
        signed == Char(t, 1) \in {"-", "+"}
        from   == IF signed THEN 2 ELSE 1
        to     == CHOOSE i \in (from - 1)..(Len(t) - 1) :
                      /\ \A j \in from..i : IsDigit(Char(t, j))
                      /\ ~IsDigit(Char(t, i + 1))
    IN  IF to < from THEN Null
        ELSE IF Char(t, 1) = "-" THEN <<0 - parseInt(SubSeq(t, from, to))>>
        ELSE <<parseInt(SubSeq(t, from, to))>>

\* parseFloat(str) || 0 : NaN and 0 both give 0.
parseFloatOrZero(str) ==
    LET v == parseFloat(str)
    IN  IF v = Null THEN 0 ELSE v[1]

\* detectSignConvention with `>=`: a tie inverts.
detectSignConvention_TieInverts(amounts) ==
    LET negativeCount == Len(SelectSeq(amounts, LAMBDA a : a < 0))
        positiveCount == Len(SelectSeq(amounts, LAMBDA a : a > 0))
    IN  negativeCount >= positiveCount

detectSignConvention(amounts) ==
    LET negativeCount == Len(SelectSeq(amounts, LAMBDA a : a < 0))
        positiveCount == Len(SelectSeq(amounts, LAMBDA a : a > 0))
    IN  negativeCount > positiveCount

\* cols[idx] ?? fallback
ColOr(cols, idx, fallback) ==
    IF idx + 1 \in 1..Len(cols) THEN cols[idx + 1] ELSE fallback

\* const getCol = (idx) => (idx >= 0 ? cols[idx] ?? '' : '')
getCol(cols, idx) == IF idx >= 0 THEN ColOr(cols, idx, "") ELSE ""

\* The data lines without the blank-line test.
DataLines_KeepBlank(lines) == Tail(lines)

\* The lines both passes visit: lines[1..] that are not blank
\* (`if (!line?.trim()) continue`).
DataLines(lines) == SelectSeq(Tail(lines), LAMBDA line : trim(line) # "")

\* Lines 624-634: the first pass.
RawAmounts(dataLines, mapping) ==
    IF mapping.amount >= 0
    THEN SelectSeq([i \in 1..Len(dataLines) |->
                        parseFloatOrZero(ColOr(split(dataLines[i], "\t"), mapping.amount, "0"))],
                   LAMBDA rawAmount : rawAmount # 0)
    ELSE <<>>

\* The Transaction of one data line read from fixed column positions, as in
\* the revision of lines 46-61 (the mapping is ignored).
ParseLine_FixedColumns(line, mapping, invertSign) ==
    LET cols      == split(line, "\t")
        rawAmount == parseFloatOrZero(ColOr(cols, 6, "0"))
    IN  [date              |-> ColOr(cols, 0, ""),
         merchant          |-> ColOr(cols, 1, ""),
         category          |-> ColOr(cols, 2, ""),
         account           |-> ColOr(cols, 3, ""),
         originalStatement |-> ColOr(cols, 4, ""),
         notes             |-> ColOr(cols, 5, ""),
         amount            |-> IF invertSign THEN 0 - rawAmount ELSE rawAmount,
         tags              |-> ColOr(cols, 7, ""),
         owner             |-> ColOr(cols, 8, ""),
         fixedCategory     |-> ColOr(cols, 9, "")]

\* The Transaction of one data line with the amount always negated, as in
\* line 48 of the earlier revision (`const amount = -rawAmount`).
ParseLine_AlwaysInvert(line, mapping, invertSign) ==
    LET cols      == split(line, "\t")
        rawAmount == parseFloatOrZero(getCol(cols, mapping.amount))
    IN  [date              |-> getCol(cols, mapping.date),
         merchant          |-> getCol(cols, mapping.merchant),
         category          |-> getCol(cols, mapping.category),
         account           |-> getCol(cols, mapping.account),
         originalStatement |-> getCol(cols, mapping.originalStatement),
         notes             |-> getCol(cols, mapping.notes),
         amount            |-> 0 - rawAmount,
         tags              |-> getCol(cols, mapping.tags),
         owner             |-> getCol(cols, mapping.owner),
         fixedCategory     |-> getCol(cols, mapping.fixedCategory)]

\* Lines 645-662: the Transaction of one data line.
ParseLine(line, mapping, invertSign) ==
    LET cols      == split(line, "\t")
        rawAmount == parseFloatOrZero(getCol(cols, mapping.amount))
    IN  [date              |-> getCol(cols, mapping.date),
         merchant          |-> getCol(cols, mapping.merchant),
         category          |-> getCol(cols, mapping.category),
         account           |-> getCol(cols, mapping.account),
         originalStatement |-> getCol(cols, mapping.originalStatement),
         notes             |-> getCol(cols, mapping.notes),
         amount            |-> IF invertSign THEN 0 - rawAmount ELSE rawAmount,
         tags              |-> getCol(cols, mapping.tags),
         owner             |-> getCol(cols, mapping.owner),
         fixedCategory     |-> getCol(cols, mapping.fixedCategory)]

parseTSV(tsv) ==
    LET lines == split(trim(tsv), "\n")
    IN  IF Len(lines) < 2 THEN <<>>
        ELSE IF lines[1] = "" THEN <<>>
        ELSE LET mapping    == detectColumnMapping(split(lines[1], "\t"))
                 dataLines  == DataLines(lines)
                 invertSign == detectSignConvention(RawAmounts(dataLines, mapping))
             IN  [i \in 1..Len(dataLines) |-> ParseLine(dataLines[i], mapping, invertSign)]

-----------------------------------------------------------------------------
(* getYearMonth, getAvailableYears, pivotData and getTransactionsForCell,
   lines 668-701 and 725-730 *)

\* getYearMonth with a default year and month in place of null.
getYearMonth_Default(dateStr) ==
    LET parsed == parseDateString(dateStr)
    IN  IF parsed = Null THEN <<[year |-> 2025, month |-> 1]>>
        ELSE <<[year |-> parsed[1].year, month |-> parsed[1].month]>>

\* Null, or <<[year, month]>> of the parsed date.
getYearMonth(dateStr) ==
    LET parsed == parseDateString(dateStr)
    IN  IF parsed = Null THEN Null
        ELSE <<[year |-> parsed[1].year, month |-> parsed[1].month]>>

\* The numbers of S in descending order: sort((a, b) => b - a).
RECURSIVE SortDescending(_)
SortDescending(S) ==
    IF S = {} THEN <<>>
    ELSE LET max == CHOOSE x \in S : \A y \in S : y <= x
         IN  <<max>> \o SortDescending(S \ {max})

getAvailableYears(list) ==
    LET years == {getYearMonth(list[i].date)[1].year :
                     i \in {j \in 1..Len(list) :
                               getYearMonth(list[j].date) # Null}}
    IN  SortDescending(years)

\* a || b on strings: the empty string is the only falsy string.
OrElse(a, b) == IF a # "" THEN a ELSE b

\* Line 91 of the earlier revision: t.fixedCategory || 'Uncategorized'.
PivotCategory_FixedOnly(t) == OrElse(t.fixedCategory, "Uncategorized")

\* Line 690: t.fixedCategory || t.category || 'Uncategorized'.
PivotCategory(t) == OrElse(OrElse(t.fixedCategory, t.category), "Uncategorized")

\* Line 728: the same expression, written out again in the cell filter.
CellCategory(t) == OrElse(OrElse(t.fixedCategory, t.category), "Uncategorized")

\* `pivot` is a plain object literal, so pivot[key] also finds what
\* Object.prototype provides.  These keys name its function members, which
\* are truthy; the accessor "__proto__" is not among the categories drawn.
ObjectPrototypeMethods ==
    {"constructor", "hasOwnProperty", "isPrototypeOf", "propertyIsEnumerable",
     "toLocaleString", "toString", "valueOf"}

\* The objects pivotData writes to: `pivot`, the own properties of the
\* result (category -> month -> sum), and `inherited`, the month properties
\* written onto members of Object.prototype reached through pivot[category].
EmptyPivot == [pivot |-> <<>>, inherited |-> <<>>]

\* Line 696 on the month object stored under key in objects:
\* data[month] = (data[month] ?? 0) + amount.
AddAmount(objects, key, month, amount) ==
    LET data == IF key \in DOMAIN objects THEN objects[key] ELSE <<>>
        sum  == (IF month \in DOMAIN data THEN data[month] ELSE 0) + amount
    IN  (key :> ((month :> sum) @@ data)) @@ objects

\* Lines 687-697: one iteration of the loop over the transactions.
PivotStep(ps, t, year) ==
    LET ym == getYearMonth(t.date)
    IN  IF ym = Null THEN ps
        ELSE IF ym[1].year # year THEN ps
        ELSE LET category == PivotCategory(t)
             IN  IF category \notin DOMAIN ps.pivot /\ category \in ObjectPrototypeMethods
                 THEN \* pivot[category] is the inherited function: no own
                      \* property is created and the month is set on it
                      [ps EXCEPT !.inherited =
                          AddAmount(ps.inherited, category, ym[1].month, t.amount)]
                 ELSE [ps EXCEPT !.pivot =
                          AddAmount(ps.pivot, category, ym[1].month, t.amount)]

RECURSIVE PivotFrom(_, _, _, _)
PivotFrom(ps, list, year, i) ==
    IF i > Len(list) THEN ps
    ELSE LET next == PivotStep(ps, list[i], year)
         IN  IF next = ps
             THEN PivotFrom(ps, list, year, i + 1)
             ELSE PivotFrom(next, list, year, i + 1)

pivotData(list, year) == PivotFrom(EmptyPivot, list, year, 1)

\* The cell filter without the year test.
getTransactionsForCell_AnyYear(list, category, year, month) ==
    SelectSeq(list,
              LAMBDA t : LET ym == getYearMonth(t.date)
                         IN  /\ ym # Null
                             /\ ym[1].month = month
                             /\ CellCategory(t) = category)

getTransactionsForCell(list, category, year, month) ==
    SelectSeq(list,
              LAMBDA t : LET ym == getYearMonth(t.date)
                         IN  /\ ym # Null
                             /\ ym[1].year = year
                             /\ ym[1].month = month
                             /\ CellCategory(t) = category)

-----------------------------------------------------------------------------
(* calculateStats, lines 709-723 *)

\* Object.values of an object with integer keys: the values in ascending
\* key order.
RECURSIVE ObjectValues(_)
ObjectValues(monthlyData) ==
    IF DOMAIN monthlyData = {} THEN <<>>
    ELSE LET first == CHOOSE m \in DOMAIN monthlyData :
                          \A k \in DOMAIN monthlyData : m <= k
         IN  <<monthlyData[first]>>
                 \o ObjectValues([k \in DOMAIN monthlyData \ {first} |-> monthlyData[k]])

\* values.reduce((a, b) => a + b, 0)
RECURSIVE SumOf(_)
SumOf(values) ==
    IF values = <<>> THEN 0
    ELSE SumOf(SubSeq(values, 1, Len(values) - 1)) + values[Len(values)]

\* [...values].sort((a, b) => a - b): the values in ascending order.
RECURSIVE SortAscending(_)
SortAscending(values) ==
    IF values = <<>> THEN <<>>
    ELSE LET k == CHOOSE i \in 1..Len(values) :
                      \A j \in 1..Len(values) : values[i] <= values[j]
         IN  <<values[k]>>
                 \o SortAscending(SubSeq(values, 1, k - 1)
                                      \o SubSeq(values, k + 1, Len(values)))

\* A quotient num / den, kept exact.
Quotient(num, den) == [num |-> num, den |-> den]

\* calculateStats without the filter of line 710.
calculateStats_KeepZero(monthlyData) ==
    LET values == ObjectValues(monthlyData)
    IN  IF Len(values) = 0
        THEN [total |-> 0, mean |-> Quotient(0, 1), median |-> Quotient(0, 1)]
        ELSE LET total  == SumOf(values)
                 sorted == SortAscending(values)
                 mid    == Len(sorted) \div 2      \* zero-based
             IN  [total  |-> total,
                  mean   |-> Quotient(total, Len(values)),
                  median |-> IF Len(sorted) % 2 # 0
                             THEN Quotient(sorted[mid + 1], 1)
                             ELSE Quotient(sorted[mid] + sorted[mid + 1], 2)]

calculateStats(monthlyData) ==
    LET values == SelectSeq(ObjectValues(monthlyData), LAMBDA v : v # 0)
    IN  IF Len(values) = 0
        THEN [total |-> 0, mean |-> Quotient(0, 1), median |-> Quotient(0, 1)]
        ELSE LET total  == SumOf(values)
                 sorted == SortAscending(values)
                 mid    == Len(sorted) \div 2      \* zero-based
             IN  [total  |-> total,
                  mean   |-> Quotient(total, Len(values)),
                  median |-> IF Len(sorted) % 2 # 0
                             THEN Quotient(sorted[mid + 1], 1)
                             ELSE Quotient(sorted[mid] + sorted[mid + 1], 2)]

-----------------------------------------------------------------------------
(* Specification SpecDate: parseDateString applied to drawn date strings *)

\* The pieces date strings are assembled from: one- and two-digit numbers
\* on both sides of 12, four-digit years, an empty piece and pieces that
\* are not numbers.
DateTokens == {"3", "04", "12", "13", "25", "2025", "1999", "", "2o25", "123"}

DateSeparators == {"-", "/", "."}

DatePadding == {<<"", "">>, <<" ", "">>, <<"", " ">>, <<"\t", "\n">>}

DateStrings ==
    {pad[1] \o a \o s1 \o b \o s2 \o c \o pad[2] :
        a \in DateTokens, b \in DateTokens, c \in DateTokens,
        s1 \in DateSeparators, s2 \in DateSeparators, pad \in DatePadding}
    \cup {"", "2025", "2025-04", "2025-04-25-01", "04/25/2025/", "-4-2025"}

InitDate ==
    /\ AppInit
    /\ pc = "parseDateString"
    /\ arg \in DateStrings
    /\ ret = Null

CallParseDateString ==
    /\ pc = "parseDateString"
    /\ ret' = parseDateString(arg)
    /\ pc' = "done"
    /\ UNCHANGED <<arg, appVars>>

NextDate == CallParseDateString

SpecDate == InitDate /\ [][NextDate]_vars


-----------------------------------------------------------------------------
(* Specification SpecMapping: detectColumnMapping on drawn header rows, one
   iteration of the loop over the fields per step *)

MaxHeaders == 3

\* Spellings of the date, amount, category and override columns (with case
\* and padding variants), a fixed-prefixed date column and an unknown column.
HeaderNames ==
    {"Date", "Posted Date", "Amount", "Category", "Type", "Fixed Category",
     "fixedcategory", " FIXED CATEGORY ", "Fixed Date", "Color"}

RECURSIVE SeqsUpTo(_, _)
SeqsUpTo(S, n) ==
    IF n = 0 THEN {<<>>}
    ELSE LET shorter == SeqsUpTo(S, n - 1)
         IN  shorter \cup {Append(q, x) : q \in {r \in shorter : Len(r) = n - 1}, x \in S}

HeaderRows == SeqsUpTo(HeaderNames, MaxHeaders) \ {<<>>}

InitMapping ==
    /\ AppInit
    /\ pc = "detectColumnMapping"
    /\ arg \in HeaderRows
    /\ ret = [k |-> 0, st |-> EmptyMatch, result |-> Null]

\* One iteration of `for (const [field, synonyms] of Object.entries(...))`.
MatchNextField ==
    /\ pc = "detectColumnMapping"
    /\ ret.k < Len(Fields)
    /\ ret' = [k      |-> ret.k + 1,
               st     |-> FieldStep(ret.st, NormalizedHeaders(arg), Fields[ret.k + 1]),
               result |-> Null]
    /\ UNCHANGED <<pc, arg, appVars>>

\* The return statement, lines 445-456.
ReturnColumnMapping ==
    /\ pc = "detectColumnMapping"
    /\ ret.k = Len(Fields)
    /\ ret' = [ret EXCEPT !.result = <<ReturnMapping(ret.st.mapping)>>]
    /\ pc' = "done"
    /\ UNCHANGED <<arg, appVars>>

NextMapping == MatchNextField \/ ReturnColumnMapping

SpecMapping == InitMapping /\ [][NextMapping]_vars

-----------------------------------------------------------------------------
(* Specification SpecParse: parseTSV applied to drawn texts *)

MaxLines == 3

ParseHeaderLines == {"Date\tAmount", "Total", "Date\tNotes"}

\* Data lines: blank lines, rows with a negative, a positive, a zero and an
\* unparsable amount, and rows shorter than the header.
ParseDataLines ==
    {"", " \t", "2025-01-05\t-50", "03/04/2025\t20", "x\t0", "-7", "2025-02-01\tn/a"}

\* White space around the whole text.
TextPadding == {<<"", "">>, <<"\n", "">>, <<" ", "\t\n">>}

RECURSIVE JoinLines(_, _)
JoinLines(lines, sep) ==
    IF Len(lines) = 0 THEN ""
    ELSE IF Len(lines) = 1 THEN lines[1]
    ELSE lines[1] \o sep \o JoinLines(Tail(lines), sep)

ParseTexts ==
    {pad[1] \o JoinLines(<<h>> \o body, "\n") \o pad[2] :
        h \in ParseHeaderLines, body \in SeqsUpTo(ParseDataLines, MaxLines),
        pad \in TextPadding}
    \cup {"", "\n", " \t "}

InitParse ==
    /\ AppInit
    /\ pc = "parseTSV"
    /\ arg \in ParseTexts
    /\ ret = Null

CallParseTSV ==
    /\ pc = "parseTSV"
    /\ ret' = parseTSV(arg)
    /\ pc' = "done"
    /\ UNCHANGED <<arg, appVars>>

NextParse == CallParseTSV

SpecParse == InitParse /\ [][NextParse]_vars

-----------------------------------------------------------------------------
(* Specification SpecPermute: parseTSV applied to a table and to the same
   table with its columns permuted *)

MaxPermRows == 1

\* Two spellings of the amount column that differ in case and padding, a
\* lower-priority amount synonym, another field and an unnamed column.
PermHeaderNames == {"Amount", "amount ", "Total", "Notes", ""}

PermCells == {"", "-5", "7", " "}

\* Tables of two columns with up to MaxPermRows data rows, and tables of
\* three columns with one data row.
TwoColumnTables ==
    [headers : {<<a, b>> : a \in PermHeaderNames, b \in PermHeaderNames},
     rows    : SeqsUpTo({<<a, b>> : a \in PermCells, b \in PermCells}, MaxPermRows)]

ThreeColumnTables ==
    [headers : {<<a, b, c>> : a \in {"Amount", "Total", "Notes"},
                              b \in {"Amount", "Total", "Notes"},
                              c \in {"Amount", "Total", "Notes"}},
     rows    : {<<<<a, b, c>>>> : a \in {"", "-5", "7"},
                                  b \in {"", "-5", "7"},
                                  c \in {"", "-5", "7"}}]

\* The permutations of 1..n: column i of the permuted table is column p[i]
\* of the table.
ColumnPermutations(n) ==
    {p \in [1..n -> 1..n] : \A i, j \in 1..n : i # j => p[i] # p[j]}

PermuteCells(cells, p) == [i \in 1..Len(cells) |-> cells[p[i]]]

PermuteTable(table, p) ==
    [headers |-> PermuteCells(table.headers, p),
     rows    |-> [r \in 1..Len(table.rows) |-> PermuteCells(table.rows[r], p)]]

\* The text of a table: cells joined by tabs, lines joined by newlines.
TableText(table) ==
    JoinLines(<<JoinLines(table.headers, "\t")>>
                  \o [r \in 1..Len(table.rows) |-> JoinLines(table.rows[r], "\t")],
              "\n")

InitPermute ==
    /\ AppInit
    /\ pc = "parseTSV"
    /\ \E table \in TwoColumnTables \cup ThreeColumnTables :
           \E p \in ColumnPermutations(Len(table.headers)) :
               arg = [table |-> table, perm |-> p]
    /\ ret = Null

CallParseTSVPermuted ==
    /\ pc = "parseTSV"
    /\ ret' = [original |-> parseTSV(TableText(arg.table)),
               permuted |-> parseTSV(TableText(PermuteTable(arg.table, arg.perm)))]
    /\ pc' = "done"
    /\ UNCHANGED <<arg, appVars>>

NextPermute == CallParseTSVPermuted

SpecPermute == InitPermute /\ [][NextPermute]_vars

-----------------------------------------------------------------------------
(* Specification SpecPivot: getAvailableYears, pivotData and
   getTransactionsForCell applied to drawn transaction lists *)

MaxTransactions == 2

PivotDates == {"2025-01-05", "01/09/2024", "03/04/2025", "n/a"}

\* <<category, fixedCategory>>
PivotCategoryPairs ==
    {<<"", "">>, <<"Dining", "">>, <<"Dining", "Food">>, <<"constructor", "">>}

PivotTransaction(d, c, a) ==
    [date |-> d, merchant |-> "", category |-> c[1], account |-> "",
     originalStatement |-> "", notes |-> "", amount |-> a, tags |-> "",
     owner |-> "", fixedCategory |-> c[2]]

\* A charge of 5 for every date and category pair, and for every date a
\* refund of 5 under "Dining", which brings the sum of a cell to 0.
PivotTransactions ==
    {PivotTransaction(d, c, 5) : d \in PivotDates, c \in PivotCategoryPairs}
        \cup {PivotTransaction(d, <<"Dining", "">>, -5) : d \in PivotDates}

PivotYears == {2024, 2025}

PivotMonths == {1, 3}

PivotCategories == {"Dining", "Food", "Uncategorized", "constructor"}

InitPivot ==
    /\ AppInit
    /\ pc = "call"
    /\ arg \in SeqsUpTo(PivotTransactions, MaxTransactions)
    /\ ret = Null

CallGetAvailableYears ==
    /\ pc = "call"
    /\ ret' = [op |-> "getAvailableYears", result |-> getAvailableYears(arg)]
    /\ pc' = "done"
    /\ UNCHANGED <<arg, appVars>>

CallPivotData ==
    /\ pc = "call"
    /\ \E year \in PivotYears :
           ret' = [op |-> "pivotData", year |-> year, result |-> pivotData(arg, year)]
    /\ pc' = "done"
    /\ UNCHANGED <<arg, appVars>>

\* Array.prototype.filter returns a new array and leaves its receiver alone.
CallGetTransactionsForCell ==
    /\ pc = "call"
    /\ \E category \in PivotCategories, year \in PivotYears, month \in PivotMonths :
           ret' = [op |-> "getTransactionsForCell", category |-> category,
                   year |-> year, month |-> month,
                   result |-> getTransactionsForCell(arg, category, year, month)]
    /\ pc' = "done"
    /\ UNCHANGED <<arg, appVars>>

NextPivot ==
    \/ CallGetAvailableYears
    \/ CallPivotData
    \/ CallGetTransactionsForCell

SpecPivot == InitPivot /\ [][NextPivot]_vars

-----------------------------------------------------------------------------
(* Specification SpecStats: calculateStats applied to drawn monthly totals *)

MaxStatMonths == 4

StatTotals == {-200, 0, 100, 200, 300}

\* The totals of any of the first MaxStatMonths months.
MonthlyTotals ==
    UNION {[months -> StatTotals] : months \in SUBSET (1..MaxStatMonths)}

InitStats ==
    /\ AppInit
    /\ pc = "calculateStats"
    /\ arg \in MonthlyTotals
    /\ ret = Null

CallCalculateStats ==
    /\ pc = "calculateStats"
    /\ ret' = calculateStats(arg)
    /\ pc' = "done"
    /\ UNCHANGED <<arg, appVars>>

NextStats == CallCalculateStats

SpecStats == InitStats /\ [][NextStats]_vars

-----------------------------------------------------------------------------
(* Specification SpecIngest: parseTSV applied to a drawn text, then
   getAvailableYears, pivotData and getTransactionsForCell applied to the
   Transactions it returned *)

MaxIngestLines == 3

IngestHeader == "Date\tCategory\tAmount"

\* Data lines with a year-first date, a month-first date, a year-first date
\* whose month is 13, and dates that parseDateString does not resolve (a
\* word, an empty cell, dots).
IngestLines ==
    {"2025-01-05\tDining\t5", "03/04/2024\tFood\t7", "2025-13-01\tDining\t5",
     "n/a\tDining\t-3", "\tFood\t5", "2025.01.05\tDining\t7"}

IngestTexts ==
    {JoinLines(<<IngestHeader>> \o body, "\n") :
        body \in SeqsUpTo(IngestLines, MaxIngestLines)}

IngestCategories == {"Dining", "Food"}

InitIngest ==
    /\ AppInit
    /\ pc = "parseTSV"
    /\ arg \in IngestTexts
    /\ ret = Null

IngestParseTSV ==
    /\ pc = "parseTSV"
    /\ ret' = [op |-> "parseTSV", transactions |-> parseTSV(arg)]
    /\ pc' = "parsed"
    /\ UNCHANGED <<arg, appVars>>

IngestGetAvailableYears ==
    /\ pc = "parsed"
    /\ ret' = [op |-> "getAvailableYears", transactions |-> ret.transactions,
               result |-> getAvailableYears(ret.transactions)]
    /\ pc' = "done"
    /\ UNCHANGED <<arg, appVars>>

IngestPivotData ==
    /\ pc = "parsed"
    /\ \E year \in PivotYears :
           ret' = [op |-> "pivotData", transactions |-> ret.transactions,
                   year |-> year, result |-> pivotData(ret.transactions, year)]
    /\ pc' = "done"
    /\ UNCHANGED <<arg, appVars>>

IngestGetTransactionsForCell ==
    /\ pc = "parsed"
    /\ \E category \in IngestCategories, year \in PivotYears, month \in PivotMonths :
           ret' = [op |-> "getTransactionsForCell", transactions |-> ret.transactions,
                   category |-> category, year |-> year, month |-> month,
                   result |-> getTransactionsForCell(ret.transactions, category,
                                                     year, month)]
    /\ pc' = "done"
    /\ UNCHANGED <<arg, appVars>>

NextIngest ==
    \/ IngestParseTSV
    \/ IngestGetAvailableYears
    \/ IngestPivotData
    \/ IngestGetTransactionsForCell

SpecIngest == InitIngest /\ [][NextIngest]_vars

-----------------------------------------------------------------------------
(* Specification SpecReparse: parseTSV applied to a drawn text, and again to
   the text its Transactions are written back to under the same header *)

MaxReparseLines == 3

\* Headers with an amount column and without one ("Color" names no field).
ReparseHeaders == {"Date\tAmount", "Total\tNotes", "Color\tDate"}

ReparseLines == {"2025-01-05\t-50", "03/04/2025\t20", "x\t0", "-7", "-3\t "}

ReparseTexts ==
    {JoinLines(<<h>> \o body, "\n") :
        h \in ReparseHeaders, body \in SeqsUpTo(ReparseLines, MaxReparseLines)}

\* The decimal numeral of a natural number, and of an integer.
RECURSIVE NaturalToString(_)
NaturalToString(n) ==
    LET digit == CHOOSE c \in {"0", "1", "2", "3", "4", "5", "6", "7", "8", "9"} :
                     DigitVal(c) = n % 10
    IN  IF n < 10 THEN digit ELSE NaturalToString(n \div 10) \o digit

NumberToString(n) == IF n < 0 THEN "-" \o NaturalToString(0 - n) ELSE NaturalToString(n)

\* The value a Transaction has for a field, as text.
FieldText(t, field) ==
    CASE field = "date" -> t.date
      [] field = "merchant" -> t.merchant
      [] field = "category" -> t.category
      [] field = "account" -> t.account
      [] field = "originalStatement" -> t.originalStatement
      [] field = "notes" -> t.notes
      [] field = "amount" -> NumberToString(t.amount)
      [] field = "tags" -> t.tags
      [] field = "owner" -> t.owner
      [] field = "fixedCategory" -> t.fixedCategory

\* The line of a Transaction under a header: each column holds the field
\* the header's mapping reads from it, and is empty when it reads none.
SerializeLine(t, headers) ==
    LET mapping == detectColumnMapping(headers)
        cell(j) == IF \E i \in 1..Len(Fields) : mapping[Fields[i]] = j - 1
                   THEN FieldText(t, Fields[CHOOSE i \in 1..Len(Fields) :
                                                mapping[Fields[i]] = j - 1])
                   ELSE ""
    IN  JoinLines([j \in 1..Len(headers) |-> cell(j)], "\t")

\* The header line parseTSV reads from a text.
HeaderLineOf(text) == split(trim(text), "\n")[1]

Serialize(list, headerLine) ==
    JoinLines(<<headerLine>>
                  \o [k \in 1..Len(list) |-> SerializeLine(list[k], split(headerLine, "\t"))],
              "\n")

InitReparse ==
    /\ AppInit
    /\ pc = "parseTSV"
    /\ arg \in ReparseTexts
    /\ ret = Null

FirstParseTSV ==
    /\ pc = "parseTSV"
    /\ ret' = [first |-> parseTSV(arg), text |-> "", second |-> <<>>]
    /\ pc' = "reparse"
    /\ UNCHANGED <<arg, appVars>>

SecondParseTSV ==
    /\ pc = "reparse"
    /\ LET text == Serialize(ret.first, HeaderLineOf(arg))
       IN  ret' = [first |-> ret.first, text |-> text, second |-> parseTSV(text)]
    /\ pc' = "done"
    /\ UNCHANGED <<arg, appVars>>

NextReparse == FirstParseTSV \/ SecondParseTSV

SpecReparse == InitReparse /\ [][NextReparse]_vars

-----------------------------------------------------------------------------
(* Specification Spec: the App component, lines 732-972.  The events are the
   mount effect, text typed or pasted into the textarea, a click on a year
   button and a click on a cell of the pivot table.  arg and ret hold the
   last event and its argument. *)

MaxAppLines == 2

AppHeader == "Date\tCategory\tAmount"

\* Data lines of two years and a line whose date does not resolve.
AppLines ==
    <<"2025-01-05\tDining\t-50", "2024-03-04\tFood\t-20", "n/a\tDining\t-3">>

\* What the textarea or the storage may hold: the empty text, and the
\* header followed by up to MaxAppLines of the data lines.
AppTexts ==
    {""} \cup {JoinLines(<<AppHeader>> \o SelectSeq(AppLines, LAMBDA line : line \in chosen), "\n") :
                  chosen \in {S \in SUBSET {AppLines[i] : i \in 1..Len(AppLines)} :
                                 Cardinality(S) <= MaxAppLines}}

\* Lines 504-612.  The text is built from Math.random draws, so it is one
\* of many: the header of line 590, then lines dated 2025-MM-DD with a
\* merchant, a category, an account, a statement, an empty note, a negative
\* amount with two decimals, an empty tag and an owner.  Two such texts are
\* drawn, with one and with two of the data lines.
generateSyntheticData ==
    LET header == "Date\tMerchant\tCategory\tAccount\tOriginal Statement\tNotes\tAmount\tTags\tOwner"
        first  == "2025-01-05\tFresh Mart\tGroceries\tPlatinum Card\tFRESH MART #1234\t\t-45.00\t\tPrimary"
        second == "2025-02-17\tBella Italia\tRestaurants\tRewards Visa\tBELLA ITALIA REST\t\t-30.00\t\tShared"
    IN  {JoinLines(<<header, first>>, "\n"), JoinLines(<<header, first, second>>, "\n")}

\* MONTHS.map((_, idx) => idx + 1), lines 873-874.
MONTHS == 1..12

\* Line 775: Object.keys(pivot), the own keys of the pivot of the selected
\* year (the empty object when no year is selected, line 774).
categories ==
    IF selectedYear = Null THEN {}
    ELSE DOMAIN pivotData(transactions, selectedYear[1]).pivot

\* The state before the mount effect: the useState initial values, and a
\* storage left by an earlier visit, or none.
Init ==
    /\ tsvData = ""
    /\ storage \in {Null} \cup {<<text>> : text \in AppTexts}
    /\ transactions = <<>>
    /\ selectedYear = Null
    /\ selectedCell = Null
    /\ pc = "mount"
    /\ arg = Null
    /\ ret = Null

\* Lines 741-755: the effect run once after the first render.
Mount ==
    /\ pc = "mount"
    /\ \E generated \in generateSyntheticData :
       \E saved \in {storage} :
       \E dataToUse \in {IF saved = Null \/ saved[1] = "" THEN generated ELSE saved[1]} :
       \E parsed \in {parseTSV(dataToUse)} :
       \E years \in {getAvailableYears(parsed)} :
          /\ tsvData' = dataToUse
          /\ storage' = IF saved = Null \/ saved[1] = "" THEN <<dataToUse>> ELSE storage
          /\ transactions' = parsed
          /\ selectedYear' = IF years # <<>> THEN <<years[1]>> ELSE selectedYear
    /\ pc' = "ready"
    /\ arg' = Null
    /\ ret' = "mount"
    /\ UNCHANGED selectedCell

\* handleTsvChange that adds the parsed records to those held.
HandleTsvChange_Append ==
    /\ pc = "ready"
    /\ \E value \in AppTexts :
       \E parsed \in {parseTSV(value)} :
       \E years \in {getAvailableYears(parsed)} :
          /\ tsvData' = value
          /\ storage' = <<value>>
          /\ transactions' = transactions \o parsed
          /\ selectedYear' =
               IF /\ years # <<>>
                  /\ \/ selectedYear = Null
                     \/ \A i \in 1..Len(years) : years[i] # selectedYear[1]
               THEN <<years[1]>>
               ELSE selectedYear
          /\ selectedCell' = Null
          /\ arg' = value
    /\ ret' = "handleTsvChange"
    /\ UNCHANGED pc

\* Lines 757-771: the textarea's input event with the text value (each
\* const of the handler is a bound variable holding its value).
HandleTsvChange ==
    /\ pc = "ready"
    /\ \E value \in AppTexts :
       \E parsed \in {parseTSV(value)} :
       \E years \in {getAvailableYears(parsed)} :
          /\ tsvData' = value
          /\ storage' = <<value>>
          /\ transactions' = parsed
          /\ selectedYear' =
               IF /\ years # <<>>
                  /\ \/ selectedYear = Null
                     \/ \A i \in 1..Len(years) : years[i] # selectedYear[1]
               THEN <<years[1]>>
               ELSE selectedYear
          /\ selectedCell' = Null
          /\ arg' = value
    /\ ret' = "handleTsvChange"
    /\ UNCHANGED pc

\* The year button without the reset of the cell.
SelectYear_KeepCell ==
    /\ pc = "ready"
    /\ Len(transactions) > 0
    /\ \E availableYears \in {getAvailableYears(transactions)} :
       \E i \in 1..Len(availableYears) :
          /\ selectedYear' = <<availableYears[i]>>
          /\ arg' = availableYears[i]
    /\ ret' = "selectYear"
    /\ UNCHANGED <<tsvData, storage, transactions, selectedCell, pc>>

\* Lines 821-836: the buttons are rendered when transactions are held, one
\* for each available year; lines 829-832 are the click handler.
SelectYear ==
    /\ pc = "ready"
    /\ Len(transactions) > 0
    /\ \E availableYears \in {getAvailableYears(transactions)} :
       \E i \in 1..Len(availableYears) :
          /\ selectedYear' = <<availableYears[i]>>
          /\ selectedCell' = Null
          /\ arg' = availableYears[i]
    /\ ret' = "selectYear"
    /\ UNCHANGED <<tsvData, storage, transactions, pc>>

\* Lines 777-780, called from line 877: the table is rendered when
\* transactions are held, a year is selected and the pivot has categories
\* (lines 821 and 839), with one cell for each category and month.
HandleCellClick ==
    /\ pc = "ready"
    /\ Len(transactions) > 0
    /\ selectedYear # Null
    /\ \E category \in categories, month \in MONTHS :
         /\ selectedCell' =
              IF selectedYear = Null THEN selectedCell
              ELSE <<[category |-> category, month |-> month, year |-> selectedYear[1]]>>
         /\ arg' = <<category, month>>
    /\ ret' = "handleCellClick"
    /\ UNCHANGED <<tsvData, storage, transactions, selectedYear, pc>>

Next ==
    \/ Mount
    \/ HandleTsvChange
    \/ SelectYear
    \/ HandleCellClick

Spec == Init /\ [][Next]_vars

-----------------------------------------------------------------------------
(* Claims about parseDateString *)

\* The pieces of s between its "-" and "/" characters, left to right.
RECURSIVE DatePieces(_)
DatePieces(s) ==
    IF \E i \in 1..Len(s) : Char(s, i) \in {"-", "/"}
    THEN LET k == CHOOSE i \in 1..Len(s) :
                      /\ Char(s, i) \in {"-", "/"}
                      /\ \A j \in 1..(i - 1) : Char(s, j) \notin {"-", "/"}
         IN  <<SubSeq(s, 1, k - 1)>> \o DatePieces(SubSeq(s, k + 1, Len(s)))
    ELSE <<s>>

IsNumber(s, lens) == Len(s) \in lens /\ AllDigits(s)

\* What the claim says parseDateString returns for s (surrounding white
\* space aside; "-" and "/" are both separators at either place).
C5_Resolved(s) ==
    LET p == DatePieces(trim(s))
    IN  IF Len(p) # 3 THEN Null
        ELSE IF IsNumber(p[1], {4}) /\ IsNumber(p[2], {1, 2}) /\ IsNumber(p[3], {1, 2})
        THEN <<[year |-> parseInt(p[1]), month |-> parseInt(p[2]), day |-> parseInt(p[3])]>>
        ELSE IF IsNumber(p[1], {1, 2}) /\ IsNumber(p[2], {1, 2}) /\ IsNumber(p[3], {4})
        THEN IF parseInt(p[1]) > 12 /\ ~(parseInt(p[2]) > 12)
             THEN <<[year |-> parseInt(p[3]), month |-> parseInt(p[2]), day |-> parseInt(p[1])]>>
             ELSE <<[year |-> parseInt(p[3]), month |-> parseInt(p[1]), day |-> parseInt(p[2])]>>
        ELSE Null

\* C5: parseDateString assigns a four-digit-year-first date directly, reads
\* N-N-YYYY as day/month/year exactly when the first number exceeds 12 and
\* the second does not, as month/day/year in every other case (both <= 12,
\* both > 12), and yields no match for any other shape.
C5_DateResolution ==
    (pc = "done" /\ arg \in DateStrings) => ret = C5_Resolved(arg)

\* C5 witness: both numbers exceed 12 and the date is read month/day/year.
C5_Witness ==
    /\ pc = "done"
    /\ arg = "25/13/2025"
    /\ ret = <<[year |-> 2025, month |-> 25, day |-> 13]>>


-----------------------------------------------------------------------------
(* Claims about detectColumnMapping *)

FieldSet == {Fields[i] : i \in 1..Len(Fields)}

MappingReturned == pc = "done" /\ ret.result # Null

\* C9: a header index is claimed at most once (no assignment selects an
\* index that an earlier assignment selected), and the indices of the
\* returned ColumnMapping other than -1 are pairwise distinct.
C9_ClaimedAtMostOnce ==
    pc \in {"detectColumnMapping", "done"} =>
        /\ \A i, j \in 1..Len(ret.st.claims) :
               i # j => ret.st.claims[i][2] # ret.st.claims[j][2]
        /\ ret.result # Null =>
               \A f, g \in FieldSet :
                   (f # g /\ ret.result[1][f] # -1) => ret.result[1][f] # ret.result[1][g]

\* C9 witness: an override header, a base header and a date header, each
\* claimed by its own field.
C9_Witness ==
    /\ MappingReturned
    /\ arg = <<"Fixed Category", "Category", "Date">>
    /\ ret.result[1].fixedCategory = 0
    /\ ret.result[1].category = 1
    /\ ret.result[1].date = 2
    /\ ret.st.usedIndices = {0, 1, 2}

HeaderIs(i, names) == trim(toLowerCase(arg[i])) \in names

\* C10 as stated: every header named "fixed category" or "fixedcategory" is
\* the fixedCategory column and not the category column, and every header
\* named "posted date" is the date column.
C10_Original ==
    MappingReturned =>
        \A i \in 1..Len(arg) :
            /\ HeaderIs(i, {"fixed category", "fixedcategory"}) =>
                   (ret.result[1].fixedCategory = i - 1 /\ ret.result[1].category # i - 1)
            /\ HeaderIs(i, {"posted date"}) => ret.result[1].date = i - 1

\* The spellings that can be assigned to fixedCategory: the fixed-prefixed
\* category synonyms and fixedCategory's own synonyms.
OverrideSpellings ==
    LET fixed == FixedSynonyms(COLUMN_SYNONYMS.category)
        own   == COLUMN_SYNONYMS.fixedCategory
    IN  {fixed[i] : i \in 1..Len(fixed)} \cup {own[i] : i \in 1..Len(own)}

\* C10 (amended): a header named "fixed category" or "fixedcategory" is
\* never the category column, and is the fixedCategory column when no other
\* header spells the override column; the first header named "posted date"
\* is the date column when no header is a higher-priority date synonym.
C10_SynonymCoverage ==
    MappingReturned =>
        \A i \in 1..Len(arg) :
            /\ HeaderIs(i, {"fixed category", "fixedcategory"}) =>
                   /\ ret.result[1].category # i - 1
                   /\ (\A j \in 1..Len(arg) : j # i => ~HeaderIs(j, OverrideSpellings))
                          => ret.result[1].fixedCategory = i - 1
            /\ ( /\ HeaderIs(i, {"posted date"})
                 /\ \A j \in 1..(i - 1) : ~HeaderIs(j, {"posted date"})
                 /\ \A j \in 1..Len(arg) :
                        ~HeaderIs(j, {"date", "transaction date", "trans date"}) )
                   => ret.result[1].date = i - 1

\* C10 witness: padded upper-case "FIXED CATEGORY" next to "Category" and
\* "Posted Date".
C10_Witness ==
    /\ MappingReturned
    /\ arg = <<"Posted Date", "Category", " FIXED CATEGORY ">>
    /\ ret.result[1].date = 0
    /\ ret.result[1].category = 1
    /\ ret.result[1].fixedCategory = 2

\* The value of a field in the partial mapping, -1 when it has none.
Mapped(st, field) == IF field \in DOMAIN st.mapping THEN st.mapping[field] ELSE -1

\* The position (from 0) of the first header of arg, among those not in
\* used, that is the earliest synonym of the list with such a header; -1
\* when no synonym of the list is an unclaimed header.
PriorityChoice(synonyms, used) ==
    LET open(k)  == {i \in 1..Len(arg) : (i - 1) \notin used /\ HeaderIs(i, {synonyms[k]})}
        matching == {k \in 1..Len(synonyms) : open(k) # {}}
    IN  IF matching = {} THEN -1
        ELSE LET best == CHOOSE k \in matching : \A j \in matching : k <= j
             IN  (CHOOSE i \in open(best) : \A j \in open(best) : i <= j) - 1

\* C14: in the iteration of a field, the field's column becomes the first
\* unclaimed header equal to the earliest synonym of the field's list that
\* is an unclaimed header, whatever the positions of the headers of later
\* synonyms; when no synonym is an unclaimed header the field keeps what it
\* had.  No iteration changes another field, the override field aside, and
\* the returned mapping holds these columns.
C14_SynonymPriority ==
    [][ /\ (pc = "detectColumnMapping" /\ ret'.k = ret.k + 1) =>
             LET field  == Fields[ret'.k]
                 choice == PriorityChoice(COLUMN_SYNONYMS[field], ret.st.usedIndices)
             IN  /\ Mapped(ret'.st, field)
                        = IF choice # -1 THEN choice ELSE Mapped(ret.st, field)
                 /\ \A other \in FieldSet \ {field, "fixedCategory"} :
                        Mapped(ret'.st, other) = Mapped(ret.st, other)
        /\ (pc = "detectColumnMapping" /\ pc' = "done") =>
             \A field \in FieldSet : ret'.result[1][field] = Mapped(ret.st, field)
      ]_vars

\* C14 witness: "Type" stands before "Category" and "Posted Date" before
\* "Date"; the earlier synonyms "category" and "date" are chosen.
C14_Witness ==
    /\ MappingReturned
    /\ arg = <<"Type", "Category">>
    /\ ret.result[1].category = 1

\* C17: the override field is assigned at most once (an index recorded for
\* fixedCategory in the category iteration is not replaced when
\* fixedCategory's own synonyms are matched), and every claimed header index
\* is the index of a field of the returned mapping.
C17_OverrideAssignedOnce ==
    MappingReturned =>
        /\ Cardinality({i \in 1..Len(ret.st.claims) :
                           ret.st.claims[i][1] = "fixedCategory"}) <= 1
        /\ \A idx \in ret.st.usedIndices :
               \E field \in FieldSet : ret.result[1][field] = idx

\* The stepwise run returns what detectColumnMapping returns.
MappingStepsAgree ==
    MappingReturned => ret.result[1] = detectColumnMapping(arg)


-----------------------------------------------------------------------------
(* Claims about parseTSV *)

NotBlank(line) == trim(line) # ""

\* The non-blank lines of the text as written: the first is the header, the
\* others are the data lines.
TextLines(text) == SelectSeq(split(text, "\n"), NotBlank)

DataRows(text) == Tail(TextLines(text))

\* The header's amount column (-1 when it has none).
AmountColumn(text) == detectColumnMapping(split(trim(TextLines(text)[1]), "\t")).amount

\* The raw amount of a data line: the number in its cell under the amount
\* column, 0 when there is no such column, no such cell or no number.
RawAmountOf(row, col) ==
    LET cells == split(row, "\t")
    IN  IF col >= 0 /\ col < Len(cells) /\ parseFloat(cells[col + 1]) # Null
        THEN parseFloat(cells[col + 1])[1]
        ELSE 0

\* C1: one sign decision per batch.  When the strictly negative raw amounts
\* strictly outnumber the strictly positive ones every emitted amount is the
\* negation of its row's raw amount; otherwise (ties, no nonzero amount)
\* every emitted amount is its row's raw amount.
C1_BatchSign ==
    (pc = "done" /\ Len(TextLines(arg)) >= 2) =>
        LET rows     == DataRows(arg)
            col      == AmountColumn(arg)
            raw      == [i \in 1..Len(rows) |-> RawAmountOf(rows[i], col)]
            negative == Cardinality({i \in 1..Len(rows) : raw[i] < 0})
            positive == Cardinality({i \in 1..Len(rows) : raw[i] > 0})
        IN  /\ Len(ret) = Len(rows)
            /\ \A i \in 1..Len(rows) :
                   ret[i].amount = IF negative > positive THEN 0 - raw[i] ELSE raw[i]

\* C1 witness: two negative amounts against one positive: all three inverted.
C1_Witness ==
    /\ pc = "done"
    /\ arg = "Date\tAmount\n2025-01-05\t-50\n03/04/2025\t20\n2025-01-05\t-50"
    /\ [i \in 1..Len(ret) |-> ret[i].amount] = <<50, -20, 50>>

Magnitude(n) == IF n < 0 THEN 0 - n ELSE n

\* The Transaction is the record of the data line: parsing the header with
\* that line alone gives the same fields, the sign of the amount (a property
\* of the batch) aside.
RecordOfRow(transaction, header, row) ==
    LET alone == parseTSV(header \o "\n" \o row)
    IN  /\ Len(alone) = 1
        /\ [alone[1] EXCEPT !.amount = 0] = [transaction EXCEPT !.amount = 0]
        /\ Magnitude(alone[1].amount) = Magnitude(transaction.amount)

\* C8: parseTSV emits exactly one Transaction per non-blank data line, in
\* line order, none for a blank line, and the empty sequence for a text of
\* fewer than two lines.
C8_OnePerDataLine ==
    pc = "done" =>
        LET lines == TextLines(arg)
        IN  IF Len(lines) < 2 THEN ret = <<>>
            ELSE /\ Len(ret) = Len(lines) - 1
                 /\ \A k \in 1..Len(ret) : RecordOfRow(ret[k], lines[1], lines[k + 1])

\* C8 witness: two data lines with a blank line between them.
C8_Witness ==
    /\ pc = "done"
    /\ arg = "Date\tAmount\n2025-01-05\t-50\n\n03/04/2025\t20"
    /\ Len(ret) = 2
    /\ ret[1].date = "2025-01-05"
    /\ ret[2].date = "03/04/2025"


\* C2 as stated: for any text and any permutation of its columns parseTSV
\* returns the same Transactions.
C2_Original ==
    pc = "done" => ret.permuted = ret.original

EndsWithSpace(s) == s # "" /\ IsSpace(Char(s, Len(s)))

\* The headers are named and differ from each other once lower-cased and
\* trimmed, and no data cell ends with white space.
DistinctNamedColumns(table) ==
    LET names == NormalizedHeaders(table.headers)
    IN  /\ \A i \in 1..Len(names) : names[i] # ""
        /\ \A i, j \in 1..Len(names) : i # j => names[i] # names[j]
        /\ \A r \in 1..Len(table.rows) :
               \A i \in 1..Len(table.rows[r]) : ~EndsWithSpace(table.rows[r][i])

\* C2 (amended): for a text whose headers are non-empty and pairwise
\* distinct after lower-casing and trimming, whose data lines have as many
\* cells as the header and whose data cells do not end with white space,
\* parseTSV returns the same Transactions for every permutation of the
\* columns.
C2_ColumnOrderInvariance ==
    (pc = "done" /\ DistinctNamedColumns(arg.table)) => ret.permuted = ret.original

\* C2 witness: three named columns rotated, the amount read from its new
\* place.
C2_Witness ==
    /\ pc = "done"
    /\ arg.table.headers = <<"Notes", "Total", "Amount">>
    /\ arg.table.rows = <<<<"7", "", "-5">>>>
    /\ arg.perm = <<2, 3, 1>>
    /\ Len(ret.permuted) = 1
    /\ ret.permuted[1].amount = 5
    /\ ret.permuted[1].notes = "7"
    /\ ret.permuted = ret.original


-----------------------------------------------------------------------------
(* Claims about pivotData and getTransactionsForCell *)

\* The category of the claims: fixedCategory if non-empty, else category if
\* non-empty, else "Uncategorized".
EffectiveCategory(t) ==
    IF t.fixedCategory # "" THEN t.fixedCategory
    ELSE IF t.category # "" THEN t.category
    ELSE "Uncategorized"

DatedIn(t, year, month) ==
    LET resolved == parseDateString(t.date)
    IN  resolved # Null /\ resolved[1].year = year /\ resolved[1].month = month

\* The positions in list of the transactions of cell (category, year, month).
CellMembers(list, category, year, month) ==
    {i \in 1..Len(list) : DatedIn(list[i], year, month)
                          /\ EffectiveCategory(list[i]) = category}

RECURSIVE SumAmounts(_, _)
SumAmounts(list, members) ==
    IF members = {} THEN 0
    ELSE LET i == CHOOSE i \in members : TRUE
         IN  list[i].amount + SumAmounts(list, members \ {i})

PivotReturned == pc = "done" /\ ret.op = "pivotData"

CellReturned == pc = "done" /\ ret.op = "getTransactionsForCell"

\* C3: the pivot of a year has a (category, month) key exactly for the cells
\* with a transaction of that year, and the value is the sum of their amounts.
C3_PivotSums ==
    PivotReturned =>
        \A category \in PivotCategories, month \in 1..12 :
            LET members == CellMembers(arg, category, ret.year, month)
                present == /\ category \in DOMAIN ret.result.pivot
                           /\ month \in DOMAIN ret.result.pivot[category]
            IN  /\ present <=> members # {}
                /\ present => ret.result.pivot[category][month] = SumAmounts(arg, members)

\* The month object reached through pivot[category]: an own property of the
\* result or a member of Object.prototype.
GroupOf(result, category) ==
    IF category \in DOMAIN result.pivot THEN result.pivot[category]
    ELSE IF category \in DOMAIN result.inherited THEN result.inherited[category]
    ELSE <<>>

\* C4: pivotData adds every transaction of the year to the month of its
\* effective category and to no other group, and getTransactionsForCell
\* returns for a category the transactions of the cell's month whose
\* effective category it is.
C4_EffectiveCategory ==
    /\ PivotReturned =>
           /\ \A i \in 1..Len(arg) :
                  LET resolved == parseDateString(arg[i].date)
                  IN  (resolved # Null /\ resolved[1].year = ret.year)
                          => resolved[1].month
                                 \in DOMAIN GroupOf(ret.result, EffectiveCategory(arg[i]))
           /\ \A category \in DOMAIN ret.result.pivot \cup DOMAIN ret.result.inherited :
                  \A month \in DOMAIN GroupOf(ret.result, category) :
                      CellMembers(arg, category, ret.year, month) # {}
    /\ CellReturned =>
           /\ \A k \in 1..Len(ret.result) :
                  EffectiveCategory(ret.result[k]) = ret.category
           /\ \A i \in 1..Len(arg) :
                  (DatedIn(arg[i], ret.year, ret.month)
                       /\ EffectiveCategory(arg[i]) = ret.category)
                      => \E k \in 1..Len(ret.result) : ret.result[k] = arg[i]

\* C4 witness: a pivot where a transaction with fixedCategory "Food" and
\* category "Dining" and one with category "Dining" alone are grouped under
\* "Food" and "Dining".
C4_Witness ==
    /\ PivotReturned
    /\ Len(arg) = 2
    /\ arg[1].fixedCategory = "Food" /\ arg[1].category = "Dining"
    /\ arg[2].fixedCategory = "" /\ arg[2].category = "Dining"
    /\ DOMAIN ret.result.pivot = {"Food", "Dining"}

\* The k-th smallest member of a non-empty set of positions.
NthMember(members, k) ==
    CHOOSE i \in members : Cardinality({j \in members : j < i}) = k - 1

\* C7: getTransactionsForCell returns the transactions of the cell, each
\* once and in the order of the input, and the input is what it was.
C7_CellTransactions ==
    [][(pc = "call" /\ pc' = "done" /\ ret'.op = "getTransactionsForCell") =>
          LET members == CellMembers(arg, ret'.category, ret'.year, ret'.month)
          IN  /\ Len(ret'.result) = Cardinality(members)
              /\ \A k \in 1..Len(ret'.result) :
                     ret'.result[k] = arg[NthMember(members, k)]
              /\ arg' = arg]_vars

\* C7 witness: a cell query that returns the second of two transactions.
C7_Witness ==
    /\ CellReturned
    /\ Len(arg) = 2
    /\ Len(ret.result) = 1
    /\ ret.result[1] = arg[2]
    /\ arg[1] # arg[2]
    /\ arg[1].date = "01/09/2024"
    /\ arg[2].date = "2025-01-05"


\* C16: the pivot of a year has the key (category, month) exactly when
\* getTransactionsForCell returns transactions for that cell, and the value
\* under the key is the sum of the amounts of the transactions it returns.
C16_PivotAgreesWithCells ==
    PivotReturned =>
        \A category \in PivotCategories, month \in 1..12 :
            LET cell    == getTransactionsForCell(arg, category, ret.year, month)
                present == /\ category \in DOMAIN ret.result.pivot
                           /\ month \in DOMAIN ret.result.pivot[category]
            IN  /\ present <=> cell # <<>>
                /\ present => ret.result.pivot[category][month]
                                 = SumOf([i \in 1..Len(cell) |-> cell[i].amount])

-----------------------------------------------------------------------------
(* Claims about calculateStats *)

NonZeroMonths(monthlyData) == {m \in DOMAIN monthlyData : monthlyData[m] # 0}

RECURSIVE SumOver(_, _)
SumOver(monthlyData, months) ==
    IF months = {} THEN 0
    ELSE LET m == CHOOSE m \in months : TRUE
         IN  monthlyData[m] + SumOver(monthlyData, months \ {m})

\* x is the k-th smallest of the totals of months, counted with repetition.
IsNthSmallest(monthlyData, months, k, x) ==
    /\ \E m \in months : monthlyData[m] = x
    /\ Cardinality({m \in months : monthlyData[m] < x}) < k
    /\ Cardinality({m \in months : monthlyData[m] <= x}) >= k

\* q.num / q.den = num / den
SameQuotient(q, num, den) == q.num * den = num * q.den /\ q.den # 0

\* C6: calculateStats ignores the months whose total is 0; of the others it
\* returns the sum, the sum divided by their number, and the middle one in
\* ascending order (the mean of the two middle ones when their number is
\* even); with no month left all three are 0.
C6_Stats ==
    pc = "done" =>
        LET months == NonZeroMonths(arg)
            n      == Cardinality(months)
        IN  IF n = 0
            THEN /\ ret.total = 0
                 /\ SameQuotient(ret.mean, 0, 1)
                 /\ SameQuotient(ret.median, 0, 1)
            ELSE /\ ret.total = SumOver(arg, months)
                 /\ SameQuotient(ret.mean, SumOver(arg, months), n)
                 /\ IF n % 2 = 1
                    THEN \E m \in months :
                             /\ IsNthSmallest(arg, months, (n + 1) \div 2, arg[m])
                             /\ SameQuotient(ret.median, arg[m], 1)
                    ELSE \E lo, hi \in months :
                             /\ IsNthSmallest(arg, months, n \div 2, arg[lo])
                             /\ IsNthSmallest(arg, months, n \div 2 + 1, arg[hi])
                             /\ SameQuotient(ret.median, arg[lo] + arg[hi], 2)

\* C6 witness: {1: 100, 2: 200, 3: 0} has total 300, mean 150 and median 150.
C6_Witness ==
    /\ pc = "done"
    /\ arg = (1 :> 100) @@ (2 :> 200) @@ (3 :> 0)
    /\ ret.total = 300
    /\ SameQuotient(ret.mean, 150, 1)
    /\ SameQuotient(ret.median, 150, 1)


-----------------------------------------------------------------------------
(* Claims about the Transactions of a text in the aggregation *)

\* The cell of a data line under a column of IngestHeader ("" when the line
\* is shorter).
CellOf(row, column) ==
    LET cells == split(row, "\t")
    IN  IF column <= Len(cells) THEN cells[column] ELSE ""

Undated(dateStr) == parseDateString(dateStr) = Null

\* C11: a data line whose date does not parse still gives a Transaction
\* with the line's date text, category and amount; no pivot of any year
\* has a cell or an amount from it, no cell query returns it, and
\* getAvailableYears lists only years of transactions whose date parses.
C11_UndatedExcluded ==
    pc # "parseTSV" =>
        LET rows == DataRows(arg)
            list == ret.transactions
        IN  /\ Len(list) = Len(rows)
            /\ \A i \in 1..Len(rows) :
                   Undated(CellOf(rows[i], 1)) =>
                       /\ list[i].date = CellOf(rows[i], 1)
                       /\ list[i].category = CellOf(rows[i], 2)
                       /\ Magnitude(list[i].amount) = Magnitude(RawAmountOf(rows[i], 2))
                       /\ Undated(list[i].date)
            /\ ret.op = "pivotData" =>
                   \A category \in DOMAIN ret.result.pivot \cup DOMAIN ret.result.inherited :
                       \A month \in DOMAIN GroupOf(ret.result, category) :
                           LET members == CellMembers(list, category, ret.year, month)
                           IN  /\ members # {}
                               /\ GroupOf(ret.result, category)[month]
                                      = SumAmounts(list, members)
            /\ ret.op = "getTransactionsForCell" =>
                   \A k \in 1..Len(ret.result) : ~Undated(ret.result[k].date)
            /\ ret.op = "getAvailableYears" =>
                   \A k \in 1..Len(ret.result) :
                       \E i \in 1..Len(list) :
                           /\ ~Undated(list[i].date)
                           /\ parseDateString(list[i].date)[1].year = ret.result[k]

\* C11 witness: a text with a dated and an undated line under "Dining", and
\* the pivot of 2025 holding the amount of the dated line alone.
C11_Witness ==
    /\ pc = "done"
    /\ ret.op = "pivotData"
    /\ ret.year = 2025
    /\ arg = JoinLines(<<IngestHeader, "n/a\tDining\t-3", "2025-01-05\tDining\t5">>, "\n")
    /\ Len(ret.transactions) = 2
    /\ ret.transactions[1].date = "n/a"
    /\ ret.result.pivot = ("Dining" :> (1 :> 5))


\* The month keys of a pivot, of its own categories and of the members of
\* Object.prototype it wrote to.
MonthKeys(result) ==
    UNION {DOMAIN GroupOf(result, category) :
              category \in DOMAIN result.pivot \cup DOMAIN result.inherited}

\* C12 as stated: every resolved date of a transaction has a month in
\* 1..12, and every month key of every pivot is in 1..12.
C12_Original ==
    pc # "parseTSV" =>
        /\ \A i \in 1..Len(ret.transactions) :
               ~Undated(ret.transactions[i].date)
                   => parseDateString(ret.transactions[i].date)[1].month \in 1..12
        /\ ret.op = "pivotData" => MonthKeys(ret.result) \subseteq 1..12

\* C12 (amended): the month of a resolved date is the one- or two-digit
\* number at the month's place, a number in 0..99 that is not held to
\* 1..12, and every month key of every pivot is such a number.
C12_MonthRange ==
    pc # "parseTSV" =>
        /\ \A i \in 1..Len(ret.transactions) :
               ~Undated(ret.transactions[i].date)
                   => parseDateString(ret.transactions[i].date)[1].month \in 0..99
        /\ ret.op = "pivotData" => MonthKeys(ret.result) \subseteq 0..99

\* C12 witness: the pivot of 2025 with a cell under month 13.
C12_Witness ==
    /\ pc = "done"
    /\ ret.op = "pivotData"
    /\ ret.year = 2025
    /\ arg = JoinLines(<<IngestHeader, "2025-13-01\tDining\t5">>, "\n")
    /\ ret.result.pivot = ("Dining" :> (13 :> 5))


-----------------------------------------------------------------------------
(* Claims about parsing the Transactions of a text again *)

AmountsOf(list) == [k \in 1..Len(list) |-> list[k].amount]

-----------------------------------------------------------------------------
(* The App's state over its events (Spec) *)

\* The last event was an input of text into the textarea.
Ingested == pc = "ready" /\ ret = "handleTsvChange"

\* C15: after handleTsvChange(text), whatever was ingested or selected
\* before, the transactions held are parseTSV(text), the stored blob and
\* the textarea hold text, and no cell is selected.
C15_LastInputDetermines ==
    Ingested =>
        /\ transactions = parseTSV(arg)
        /\ storage = <<arg>>
        /\ tsvData = arg
        /\ selectedCell = Null

\* C15 witness: a text whose only line has no resolvable date has been
\* ingested after data of 2025 had been held: the one record of that text
\* is held and nothing of the earlier data, while the year is still 2025.
C15_Witness ==
    /\ Ingested
    /\ arg = JoinLines(<<AppHeader, "n/a\tDining\t-3">>, "\n")
    /\ Len(transactions) = 1
    /\ transactions[1].date = "n/a"
    /\ selectedYear = <<2025>>

\* C18: the selected year is null or one of the available years of the
\* transactions held.
C18_SelectedYearAvailable ==
    \/ selectedYear = Null
    \/ LET years == getAvailableYears(transactions)
       IN  \E i \in 1..Len(years) : years[i] = selectedYear[1]

\* C19: a selected cell carries the selected year.
C19_CellYear ==
    selectedCell # Null =>
        /\ selectedYear # Null
        /\ selectedCell[1].year = selectedYear[1]

\* C19 witness: a cell of 2024 is selected after the year 2024 was chosen
\* on its button (the newest year, 2025, is the one selected at first).
C19_Witness ==
    /\ selectedCell # Null
    /\ selectedCell[1].year = 2024
    /\ selectedYear = <<2024>>
    /\ \E i \in 1..Len(transactions) : getYearMonth(transactions[i].date) = <<[year |-> 2025, month |-> 1]>>

=============================================================================
